---- MODULE Spec2Model ----
(***************************************************************************)
(* rapidval: field-level validation rules, the Validator that aggregates   *)
(* their results, and the Translator that renders a ValidationError.       *)
(*                                                                         *)
(* Representation of Go values.                                            *)
(*   - A Go string that is data (a field name, a checked value) is a       *)
(*     sequence of runes (Unicode code points); len() of it is the number  *)
(*     of bytes of its UTF-8 encoding.                                     *)
(*   - Message keys, template text and rendered output are TLA+ strings;   *)
(*     a rune outside ASCII is written <U+XXXX> in them.                   *)
(*   - An interface{} value is a record [kind, v]: kind is the dynamic     *)
(*     type the type switch of isZero sees.                                *)
(*   - A time.Time is [sec, nsec], the wall instant; the monotonic         *)
(*     reading is not modelled.                                            *)
(*   - A *ValidationError is NilErr or a record with isNil = FALSE.        *)
(***************************************************************************)
EXTENDS Integers, Sequences, FiniteSets, TLC

VARIABLES errors, calls, messages, tmpl, built, last,
          translating, bufs, validating, stale

vars == <<errors, calls, messages, tmpl, built, last,
          translating, bufs, validating, stale>>
\* the goroutines' variables
goVars == <<translating, bufs, validating, stale>>

(***************************************************************************)
(* Bounds of the model.                                                    *)
(***************************************************************************)
MaxParams == 2      \* longest sequence an entity's Validations returns
MaxCalls == 2       \* Validate calls made on the one Validator
MaxInt == 2         \* int arguments range over -MaxInt..MaxInt
MaxStrLen == 2      \* longest string value, in runes
MaxSec == 1         \* seconds of a time.Time range over 0..MaxSec
MaxNsec == 1        \* nanoseconds of a time.Time range over 0..MaxNsec

(***************************************************************************)
(* Message keys and parameter names.                                       *)
(***************************************************************************)
MsgRequired == "validation.required"
MsgInvalidEmail == "validation.email"
MsgMinLength == "validation.min_length"
MsgMaxLength == "validation.max_length"
MsgBetween == "validation.between"
MsgDateGreaterThan == "validation.date_greater_than"
MsgDateLessThan == "validation.date_less_than"

Field == "Field"
Min == "Min"
Max == "Max"
Value == "Value"

(***************************************************************************)
(* Go values.                                                              *)
(***************************************************************************)
StringVal(s) == [kind |-> "string", v |-> s]
IntVal(n) == [kind |-> "int", v |-> n]
BoolVal(b) == [kind |-> "bool", v |-> b]
TimeVal(t) == [kind |-> "time.Time", v |-> t]
NilVal == [kind |-> "nil"]
\* values of types the type switch of isZero has no case for
Int64Val(n) == [kind |-> "int64", v |-> n]
Float64Val(n) == [kind |-> "float64", v |-> n]
NilStringPtr == [kind |-> "*string", v |-> "nil"]
EmptyStringSlice == [kind |-> "[]string", v |-> <<>>]

\* the runes '@' and '.' that Email looks for
RuneAt == 64
RuneDot == 46

\* bytes of the UTF-8 encoding of one rune
RuneLen(r) ==
    IF r < 128 THEN 1
    ELSE IF r < 2048 THEN 2
    ELSE IF r < 65536 THEN 3
    ELSE 4

RECURSIVE len(_)
\* Go's builtin len on a string: its length in bytes
len(s) == IF s = <<>> THEN 0 ELSE RuneLen(Head(s)) + len(Tail(s))

\* strings.Contains(s, string(r)) for a single rune r
Contains(s, r) == \E i \in 1..Len(s) : s[i] = r

\* time.Time methods
TimeIsZero(t) == t.sec = 0 /\ t.nsec = 0
Before(t, u) == t.sec < u.sec \/ (t.sec = u.sec /\ t.nsec < u.nsec)
After(t, u) == t.sec > u.sec \/ (t.sec = u.sec /\ t.nsec > u.nsec)

(***************************************************************************)
(* ValidationError and the rule functions.                                 *)
(***************************************************************************)
NilErr == [isNil |-> TRUE]

ValidationError(field, key, params, value) ==
    [isNil |-> FALSE, Field |-> field, MessageKey |-> key,
     MessageParams |-> params, CurrentValue |-> value]

\* a non-nil map[string]interface{} with the given entries, and the nil map
GoMap(entries) == [isNil |-> FALSE, entries |-> entries]
NilMap == [isNil |-> TRUE, entries |-> <<>>]

isZero(v) ==
    CASE v.kind = "string" -> v.v = <<>>
      [] v.kind = "int" -> v.v = 0
      [] v.kind = "bool" -> ~v.v
      [] v.kind = "time.Time" -> TimeIsZero(v.v)
      [] v.kind = "nil" -> TRUE
      [] OTHER -> FALSE

Required(field, value) ==
    IF isZero(value)
    THEN ValidationError(field, MsgRequired,
             GoMap((Field :> StringVal(field)) @@ (Value :> value)), value)
    ELSE NilErr

Email(field, value) ==
    IF ~Contains(value, RuneAt) \/ ~Contains(value, RuneDot)
    THEN ValidationError(field, MsgInvalidEmail,
             GoMap((Field :> StringVal(field)) @@ (Value :> StringVal(value))),
             StringVal(value))
    ELSE NilErr

MinLength(field, value, min) ==
    IF len(value) < min
    THEN ValidationError(field, MsgMinLength,
             GoMap((Field :> StringVal(field)) @@ (Min :> IntVal(min))
                   @@ (Value :> StringVal(value))),
             StringVal(value))
    ELSE NilErr

\* MaxLength storing its bound under the name Min
MaxLength_BoundUnderMin(field, value, max) ==
    IF len(value) > max
    THEN ValidationError(field, MsgMaxLength,
             GoMap((Field :> StringVal(field)) @@ (Min :> IntVal(max))
                   @@ (Value :> StringVal(value))),
             StringVal(value))
    ELSE NilErr

MaxLength(field, value, max) ==
    IF len(value) > max
    THEN ValidationError(field, MsgMaxLength,
             GoMap((Field :> StringVal(field)) @@ (Max :> IntVal(max))
                   @@ (Value :> StringVal(value))),
             StringVal(value))
    ELSE NilErr

\* Between with both bounds exclusive
Between_Exclusive(field, value, min, max) ==
    IF value <= min \/ value >= max
    THEN ValidationError(field, MsgBetween,
             GoMap((Field :> StringVal(field)) @@ (Min :> IntVal(min))
                   @@ (Max :> IntVal(max)) @@ (Value :> IntVal(value))),
             IntVal(value))
    ELSE NilErr

Between(field, value, min, max) ==
    IF value < min \/ value > max
    THEN ValidationError(field, MsgBetween,
             GoMap((Field :> StringVal(field)) @@ (Min :> IntVal(min))
                   @@ (Max :> IntVal(max)) @@ (Value :> IntVal(value))),
             IntVal(value))
    ELSE NilErr

\* DateGreaterThan asking for a value after min
DateGreaterThan_NotAfter(field, value, min) ==
    IF ~After(value, min)
    THEN ValidationError(field, MsgDateGreaterThan,
             GoMap((Field :> StringVal(field)) @@ (Min :> TimeVal(min))
                   @@ (Value :> TimeVal(value))),
             TimeVal(value))
    ELSE NilErr

DateGreaterThan(field, value, min) ==
    IF Before(value, min)
    THEN ValidationError(field, MsgDateGreaterThan,
             GoMap((Field :> StringVal(field)) @@ (Min :> TimeVal(min))
                   @@ (Value :> TimeVal(value))),
             TimeVal(value))
    ELSE NilErr

DateLessThan(field, value, max) ==
    IF After(value, max)
    THEN ValidationError(field, MsgDateLessThan,
             GoMap((Field :> StringVal(field)) @@ (Max :> TimeVal(max))
                   @@ (Value :> TimeVal(value))),
             TimeVal(value))
    ELSE NilErr

(***************************************************************************)
(* Validator.                                                              *)
(***************************************************************************)
\* the error interface value Validate returns: nil, or a ValidationErrors
NilError == [isNil |-> TRUE]
ErrorOf(errs) == [isNil |-> FALSE, errs |-> errs]

RECURSIVE AppendRetained_NoKeyCheck(_, _)
\* the loop of Validate without the test of the message key
AppendRetained_NoKeyCheck(acc, params) ==
    IF params = <<>> THEN acc
    ELSE LET err == Head(params) IN
         AppendRetained_NoKeyCheck(
             IF ~err.isNil THEN Append(acc, err) ELSE acc,
             Tail(params))

RECURSIVE AppendRetained(_, _)
\* the loop of Validate: append, in order, the entries that are non-nil and
\* carry a non-empty message key
AppendRetained(acc, params) ==
    IF params = <<>> THEN acc
    ELSE LET err == Head(params) IN
         AppendRetained(
             IF ~err.isNil /\ err.MessageKey # "" THEN Append(acc, err) ELSE acc,
             Tail(params))

\* Validate returning the accumulator without looking at its length
Validate_NoLenCheck(verrors, params) ==
    IF Len(params) = 0
    THEN [errors |-> verrors, ret |-> NilError]
    ELSE LET acc == AppendRetained(verrors, params) IN
         [errors |-> acc, ret |-> ErrorOf(acc)]

\* Validate without the early return for an empty sequence
Validate_NoShortCircuit(verrors, params) ==
    LET acc == AppendRetained(verrors, params) IN
    IF Len(acc) > 0
    THEN [errors |-> acc, ret |-> ErrorOf(acc)]
    ELSE [errors |-> acc, ret |-> NilError]

\* Validate starting every call from an empty accumulator
Validate_ResetPerCall(verrors, params) ==
    IF Len(params) = 0
    THEN [errors |-> verrors, ret |-> NilError]
    ELSE LET acc == AppendRetained(<<>>, params) IN
         IF Len(acc) > 0
         THEN [errors |-> acc, ret |-> ErrorOf(acc)]
         ELSE [errors |-> acc, ret |-> NilError]

\* Validate accumulating, but returning only what the call itself retained
Validate_ReturnsOwnErrors(verrors, params) ==
    IF Len(params) = 0
    THEN [errors |-> verrors, ret |-> NilError]
    ELSE LET own == AppendRetained(<<>>, params) IN
         IF Len(own) > 0
         THEN [errors |-> verrors \o own, ret |-> ErrorOf(own)]
         ELSE [errors |-> verrors \o own, ret |-> NilError]

\* Validate on a Validator whose accumulator is verrors, for an entity whose
\* Validations returns params: the accumulator afterwards and the result
Validate(verrors, params) ==
    IF Len(params) = 0
    THEN [errors |-> verrors, ret |-> NilError]
    ELSE LET acc == AppendRetained(verrors, params) IN
         IF Len(acc) > 0
         THEN [errors |-> acc, ret |-> ErrorOf(acc)]
         ELSE [errors |-> acc, ret |-> NilError]

(***************************************************************************)
(* Translator.  A message template is held as the sequence of its lexical  *)
(* items: literal text, a field action {{.A.B}} (its identifiers and the   *)
(* byte offset of the field in the text), or an action that is never       *)
(* closed.                                                                 *)
(***************************************************************************)
TextItem(s) == [item |-> "text", text |-> s]
FieldItem(ident, pos) == [item |-> "field", ident |-> ident, pos |-> pos]
UnclosedItem == [item |-> "unclosed"]

defaultMessages ==
    (MsgRequired :> <<FieldItem(<<Field>>, 2), TextItem(" alan<U+0131> zorunludur")>>)
 @@ (MsgInvalidEmail :>
        <<FieldItem(<<Field>>, 2),
          TextItem(" ge<U+00E7>erli bir email adresi olmal<U+0131>d<U+0131>r")>>)
 @@ (MsgMinLength :>
        <<FieldItem(<<Field>>, 2), TextItem(" en az "), FieldItem(<<Min>>, 19),
          TextItem(" karakter olmal<U+0131>d<U+0131>r")>>)
 @@ (MsgMaxLength :>
        <<FieldItem(<<Field>>, 2), TextItem(" en fazla "), FieldItem(<<Max>>, 22),
          TextItem(" karakter olmal<U+0131>d<U+0131>r")>>)
 @@ (MsgBetween :>
        <<FieldItem(<<Field>>, 2), TextItem(" "), FieldItem(<<Min>>, 13),
          TextItem(" ile "), FieldItem(<<Max>>, 26),
          TextItem(" aras<U+0131>nda olmal<U+0131>d<U+0131>r")>>)
 @@ (MsgDateGreaterThan :>
        <<FieldItem(<<Field>>, 2), TextItem(" "), FieldItem(<<Min>>, 13),
          TextItem(" tarihinden sonra olmal<U+0131>d<U+0131>r")>>)
 @@ (MsgDateLessThan :>
        <<FieldItem(<<Field>>, 2), TextItem(" "), FieldItem(<<Max>>, 13),
          TextItem(" tarihinden <U+00F6>nce olmal<U+0131>d<U+0131>r")>>)

\* the custom mapping of TestTranslatorWithCustomMessages
customMessages ==
    (MsgRequired :>
        <<TextItem("The "), FieldItem(<<Field>>, 6), TextItem(" field is required")>>)
 @@ (MsgMinLength :>
        <<TextItem("The "), FieldItem(<<Field>>, 6), TextItem(" must be at least "),
          FieldItem(<<Min>>, 34), TextItem(" characters")>>)

\* a caller's mapping whose template reaches into a parameter:
\* "{{.Field.Name}} is required"
chainMessages ==
    (MsgRequired :> <<FieldItem(<<Field, "Name">>, 2), TextItem(" is required")>>)

\* a caller's mapping with a malformed template: "{{.Field"
malformedMessages ==
    (MsgRequired :> <<UnclosedItem>>)

MessageSets == {defaultMessages, customMessages, chainMessages, malformedMessages}

\* tmpl.New(key).Parse(msg): the parse tree, or an error
Parse(msg) ==
    IF \E i \in 1..Len(msg) : msg[i].item = "unclosed"
    THEN [ok |-> FALSE, tree |-> <<>>]
    ELSE [ok |-> TRUE, tree |-> msg]

\* a constructor that leaves out the templates that do not parse
NewTranslatorWithMessages_SkipMalformed(msgs) ==
    [panicked |-> FALSE, messages |-> msgs,
     tmpl |-> [key \in {k \in DOMAIN msgs : Parse(msgs[k]).ok}
                  |-> Parse(msgs[key]).tree]]

\* the Translator built from msgs; template.Must panics on a parse error
NewTranslatorWithMessages(msgs) ==
    IF \E key \in DOMAIN msgs : ~Parse(msgs[key]).ok
    THEN [panicked |-> TRUE]
    ELSE [panicked |-> FALSE, messages |-> msgs,
          tmpl |-> [key \in DOMAIN msgs |-> Parse(msgs[key]).tree]]

\* a rune as text
Chr(r) ==
    CASE r = 46 -> "."
      [] r = 64 -> "@"
      [] r = 69 -> "E"
      [] r = 74 -> "J"
      [] r = 78 -> "N"
      [] r = 97 -> "a"
      [] r = 101 -> "e"
      [] r = 105 -> "i"
      [] r = 108 -> "l"
      [] r = 109 -> "m"
      [] r = 110 -> "n"
      [] r = 351 -> "<U+015F>"
      [] OTHER -> "<U+" \o ToString(r) \o ">"

RECURSIVE Text(_)
Text(s) == IF s = <<>> THEN "" ELSE Chr(Head(s)) \o Text(Tail(s))

\* what the template engine prints for the value of a pipeline
printValue(v) ==
    CASE v.kind = "string" -> Text(v.v)
      [] v.kind = "int" -> ToString(v.v)
      [] v.kind = "bool" -> IF v.v THEN "true" ELSE "false"
      [] v.kind = "nil" -> "<no value>"
      [] OTHER -> "<" \o v.kind \o ">"

RECURSIVE Join(_)
\* the source text of a field node: .A.B
Join(ident) == IF ident = <<>> THEN "" ELSE "." \o Head(ident) \o Join(Tail(ident))

NoExecError == [isNil |-> TRUE]
ExecError(name, node, what) ==
    [isNil |-> FALSE, type |-> "template.ExecError",
     msg |-> "template: " \o name \o ":1:" \o ToString(node.pos) \o ": executing \""
             \o name \o "\" at <" \o Join(node.ident) \o ">: " \o what]

\* the first identifier of a field node, looked up in the data map: a key that is
\* missing, and any key of the nil map, gives the nil interface value
MapIndex(data, name) ==
    IF data.isNil \/ name \notin DOMAIN data.entries THEN NilVal ELSE data.entries[name]

RECURSIVE evalFieldChain(_, _, _, _)
\* the identifiers ident[i..] applied to receiver; no parameter value has fields
evalFieldChain(name, node, receiver, i) ==
    IF i > Len(node.ident) THEN [err |-> NoExecError, value |-> receiver]
    ELSE IF receiver.kind = "nil"
    THEN [err |-> ExecError(name, node,
                     "nil pointer evaluating interface {}." \o node.ident[i]),
          value |-> NilVal]
    ELSE [err |-> ExecError(name, node,
                     "can't evaluate field " \o node.ident[i] \o " in type interface {}"),
          value |-> NilVal]

RECURSIVE walk(_, _, _, _, _)
\* the nodes tree[i..] executed against data, appending to buf
walk(name, tree, data, i, buf) ==
    IF i > Len(tree) THEN [err |-> NoExecError, buf |-> buf]
    ELSE IF tree[i].item = "text"
    THEN walk(name, tree, data, i + 1, buf \o tree[i].text)
    ELSE LET r == evalFieldChain(name, tree[i],
                      MapIndex(data, tree[i].ident[1]), 2) IN
         IF ~r.err.isNil THEN [err |-> r.err, buf |-> buf]
         ELSE walk(name, tree, data, i + 1, buf \o printValue(r.value))

\* tmpl.Execute(&buf, data) for the template named name
Execute(name, tree, data) == walk(name, tree, data, 1, "")

\* Translate returning the empty string for a key it does not know
Translate_MissEmpty(msgs, tm, err) ==
    IF err.MessageKey \notin DOMAIN msgs THEN ""
    ELSE IF err.MessageKey \notin DOMAIN tm THEN ""
    ELSE LET r == Execute(err.MessageKey, tm[err.MessageKey], err.MessageParams) IN
         IF ~r.err.isNil
         THEN IF r.err.type = "*ValidationError"
              THEN r.err.MessageKey
              ELSE r.err.msg
         ELSE r.buf

\* Translate executing the template against no data
Translate_NoData(msgs, tm, err) ==
    IF err.MessageKey \notin DOMAIN msgs THEN err.MessageKey
    ELSE IF err.MessageKey \notin DOMAIN tm THEN err.MessageKey
    ELSE LET r == Execute(err.MessageKey, tm[err.MessageKey], NilMap) IN
         IF ~r.err.isNil
         THEN IF r.err.type = "*ValidationError"
              THEN r.err.MessageKey
              ELSE r.err.msg
         ELSE r.buf

\* Translate of the Translator with registry msgs and parsed templates tm
Translate(msgs, tm, err) ==
    IF err.MessageKey \notin DOMAIN msgs THEN err.MessageKey
    ELSE IF err.MessageKey \notin DOMAIN tm THEN err.MessageKey
    ELSE LET r == Execute(err.MessageKey, tm[err.MessageKey], err.MessageParams) IN
         IF ~r.err.isNil
         THEN IF r.err.type = "*ValidationError"
              THEN r.err.MessageKey
              ELSE r.err.msg
         ELSE r.buf

(***************************************************************************)
(* The inputs the operations are called with.                              *)
(***************************************************************************)
StringsOver(runes) == UNION {[1..n -> runes] : n \in 0..MaxStrLen}
\* strings of 'a' and U+015F, a rune of two bytes; strings of 'a', '@' and '.'
Strings == StringsOver({97, 351})
EmailStrings == StringsOver({97, RuneAt, RuneDot})
Ints == (0 - MaxInt)..MaxInt
Times == [sec : 0..MaxSec, nsec : 0..MaxNsec]

\* "name", "Name", "Email"
fieldName == <<110, 97, 109, 101>>
fieldNameCap == <<78, 97, 109, 101>>
fieldEmail == <<69, 109, 97, 105, 108>>
FieldNames == {fieldName, fieldNameCap}

AnyValues ==
    {StringVal(s) : s \in Strings} \cup {IntVal(n) : n \in Ints}
    \cup {BoolVal(b) : b \in BOOLEAN} \cup {TimeVal(t) : t \in Times}
    \cup {NilVal, Int64Val(0), Int64Val(1), Float64Val(0), NilStringPtr,
          EmptyStringSlice}

\* a record an entity built itself, with no message key
EmptyKeyErr == ValidationError(fieldName, "", NilMap, NilVal)

\* what an entry of a Validations sequence can be: the results of the rules of
\* testStruct2 on failing and on passing values, and EmptyKeyErr
Entries ==
    {Required(fieldName, StringVal(<<>>)), Required(fieldName, StringVal(<<74>>)),
     Email(fieldEmail, <<97>>), Email(fieldEmail, <<97, RuneAt, RuneDot>>),
     EmptyKeyErr}
ParamSeqs == UNION {[1..n -> Entries] : n \in 0..MaxParams}

TranslateKeys == DOMAIN defaultMessages \cup {"unknown.key"}
TranslateParams ==
    {NilMap,
     GoMap((Field :> StringVal(fieldNameCap)) @@ (Min :> IntVal(3))
           @@ (Value :> StringVal(<<74>>))),
     GoMap((Field :> StringVal(fieldEmail)) @@ (Value :> StringVal(<<>>))),
     GoMap((Field :> StringVal(fieldNameCap))),
     GoMap((Min :> IntVal(3)) @@ (Max :> IntVal(5))),
     GoMap((Field :> StringVal(fieldNameCap)) @@ (Min :> IntVal(3))
           @@ (Max :> IntVal(5)) @@ (Value :> NilVal))}
TranslateErrs ==
    {ValidationError(fieldName, key, params, NilVal) :
        key \in TranslateKeys, params \in TranslateParams}

\* the goroutines that share the one Translator and the one Validator
Goroutines == {"g1", "g2"}
IdleCall == [pc |-> "idle"]

\* the errors the goroutines translate
ConcurrentErrs ==
    {ValidationError(fieldName, MsgRequired,
         GoMap((Field :> StringVal(fieldNameCap))), NilVal),
     ValidationError(fieldName, MsgMinLength,
         GoMap((Field :> StringVal(fieldNameCap)) @@ (Min :> IntVal(3))
               @@ (Value :> StringVal(<<74>>))), NilVal),
     ValidationError(fieldName, "unknown.key", NilMap, NilVal)}

\* the Validations sequences of the entities the goroutines validate
RaceEntries ==
    {Required(fieldName, StringVal(<<>>)), Email(fieldEmail, <<97>>), NilErr}
RaceParamSeqs == UNION {[1..n -> RaceEntries] : n \in 0..MaxParams}

(***************************************************************************)
(* The state machine.  errors is the accumulator of the one Validator,     *)
(* calls the number of Validate calls made on it; messages and tmpl are    *)
(* the fields of the one Translator; last records the latest call: its     *)
(* arguments and what it returned.  messages is the map object the         *)
(* constructor was given, which the Translator keeps a reference to; built *)
(* is what that map held when the Translator was constructed.              *)
(* translating and validating hold, for each goroutine, the position and   *)
(* the local variables of its Translate and of its Validate call; bufs     *)
(* holds the bytes.Buffer values; stale records that a goroutine stored    *)
(* an append computed from a value of the accumulator that was no longer   *)
(* the current one.                                                        *)
(***************************************************************************)
Init ==
    /\ errors = <<>>
    /\ calls = 0
    /\ \E msgs \in MessageSets :
          LET t == NewTranslatorWithMessages(msgs) IN
          /\ ~t.panicked
          /\ messages = t.messages
          /\ tmpl = t.tmpl
          /\ built = msgs
    /\ last = [op |-> "New"]
    /\ translating = [g \in Goroutines |-> IdleCall]
    /\ bufs = [g \in Goroutines |-> ""]
    /\ validating = [g \in Goroutines |-> IdleCall]
    /\ stale = FALSE

CallValidate ==
    /\ calls < MaxCalls
    /\ \E params \in ParamSeqs :
          LET r == Validate(errors, params) IN
          /\ errors' = r.errors
          /\ last' = [op |-> "Validate", params |-> params, ret |-> r.ret]
    /\ calls' = calls + 1
    /\ UNCHANGED <<messages, tmpl, built, goVars>>

CallTranslate ==
    /\ \E err \in TranslateErrs :
          last' = [op |-> "Translate", err |-> err,
                   ret |-> Translate(messages, tmpl, err)]
    /\ UNCHANGED <<errors, calls, messages, tmpl, built, goVars>>

CallRequired ==
    /\ \E field \in FieldNames, value \in AnyValues :
          last' = [op |-> "Required", field |-> field, value |-> value,
                   ret |-> Required(field, value)]
    /\ UNCHANGED <<errors, calls, messages, tmpl, built, goVars>>

CallEmail ==
    /\ \E field \in FieldNames, value \in EmailStrings :
          last' = [op |-> "Email", field |-> field, value |-> value,
                   ret |-> Email(field, value)]
    /\ UNCHANGED <<errors, calls, messages, tmpl, built, goVars>>

CallMinLength ==
    /\ \E field \in FieldNames, value \in Strings, min \in Ints :
          last' = [op |-> "MinLength", field |-> field, value |-> value,
                   min |-> min, ret |-> MinLength(field, value, min)]
    /\ UNCHANGED <<errors, calls, messages, tmpl, built, goVars>>

CallMaxLength ==
    /\ \E field \in FieldNames, value \in Strings, max \in Ints :
          last' = [op |-> "MaxLength", field |-> field, value |-> value,
                   max |-> max, ret |-> MaxLength(field, value, max)]
    /\ UNCHANGED <<errors, calls, messages, tmpl, built, goVars>>

CallBetween ==
    /\ \E field \in FieldNames, value \in Ints, min \in Ints, max \in Ints :
          last' = [op |-> "Between", field |-> field, value |-> value,
                   min |-> min, max |-> max,
                   ret |-> Between(field, value, min, max)]
    /\ UNCHANGED <<errors, calls, messages, tmpl, built, goVars>>

CallDateGreaterThan ==
    /\ \E field \in FieldNames, value \in Times, min \in Times :
          last' = [op |-> "DateGreaterThan", field |-> field, value |-> value,
                   min |-> min, ret |-> DateGreaterThan(field, value, min)]
    /\ UNCHANGED <<errors, calls, messages, tmpl, built, goVars>>

CallDateLessThan ==
    /\ \E field \in FieldNames, value \in Times, max \in Times :
          last' = [op |-> "DateLessThan", field |-> field, value |-> value,
                   max |-> max, ret |-> DateLessThan(field, value, max)]
    /\ UNCHANGED <<errors, calls, messages, tmpl, built, goVars>>

\* a second construction: the Translator it returns takes the place of the
\* one held; a panic returns none
CallNewTranslatorWithMessages ==
    /\ \E msgs \in MessageSets :
          LET t == NewTranslatorWithMessages(msgs) IN
          IF t.panicked
          THEN /\ last' = [op |-> "NewTranslatorWithMessages", msgs |-> msgs,
                           panicked |-> TRUE]
               /\ UNCHANGED <<messages, tmpl, built>>
          ELSE /\ messages' = t.messages
               /\ tmpl' = t.tmpl
               /\ built' = msgs
               /\ last' = [op |-> "NewTranslatorWithMessages", msgs |-> msgs,
                           panicked |-> FALSE]
    /\ UNCHANGED <<errors, calls, goVars>>

\* the keys and templates the caller writes into the map it passed
CallerKeys == {MsgRequired, "custom.key"}
CallerTemplates == {<<TextItem("replaced")>>, <<UnclosedItem>>}

\* the caller deletes an entry of the map it passed, or sets one; the
\* Translator's messages field is that same map, its templates are not touched
CallerWritesMapping ==
    /\ \E key \in CallerKeys :
          \/ /\ key \in DOMAIN messages
             /\ messages' = [k \in DOMAIN messages \ {key} |-> messages[k]]
             /\ last' = [op |-> "delete", key |-> key]
          \/ \E msg \in CallerTemplates :
                /\ messages' = (key :> msg) @@ messages
                /\ last' = [op |-> "set", key |-> key, msg |-> msg]
    /\ UNCHANGED <<errors, calls, tmpl, built, goVars>>

NextRegistry ==
    \/ CallNewTranslatorWithMessages
    \/ CallerWritesMapping
    \/ CallTranslate

\* every Translate call writing to one bytes.Buffer
BufferOf_Shared(g) == "g1"

\* the bytes.Buffer of a Translate call: a local variable of the call
BufferOf(g) == g

\* goroutine g calls Translate
TranslateEnter(g) ==
    /\ translating[g].pc = "idle"
    /\ \E err \in ConcurrentErrs :
          translating' = [translating EXCEPT ![g] = [pc |-> "messages", err |-> err]]
    /\ UNCHANGED <<errors, calls, messages, tmpl, built, last, bufs, validating, stale>>

\* _, ok := t.messages[err.MessageKey]; var buf bytes.Buffer
TranslateMessages(g) ==
    /\ translating[g].pc = "messages"
    /\ LET err == translating[g].err IN
       IF err.MessageKey \notin DOMAIN messages
       THEN /\ translating' = [translating EXCEPT ![g] =
                   [pc |-> "done", err |-> err, ret |-> err.MessageKey]]
            /\ bufs' = bufs
       ELSE /\ translating' = [translating EXCEPT ![g] =
                   [pc |-> "Lookup", err |-> err]]
            /\ bufs' = [bufs EXCEPT ![BufferOf(g)] = ""]
    /\ UNCHANGED <<errors, calls, messages, tmpl, built, last, validating, stale>>

\* tmpl := t.tmpl.Lookup(err.MessageKey)
TranslateLookup(g) ==
    /\ translating[g].pc = "Lookup"
    /\ LET err == translating[g].err IN
       IF err.MessageKey \notin DOMAIN tmpl
       THEN translating' = [translating EXCEPT ![g] =
                [pc |-> "done", err |-> err, ret |-> err.MessageKey]]
       ELSE translating' = [translating EXCEPT ![g] =
                [pc |-> "Execute", err |-> err, i |-> 1]]
    /\ UNCHANGED <<errors, calls, messages, tmpl, built, last, bufs, validating, stale>>

\* tmpl.Execute(&buf, err.MessageParams), one node of the template at a time,
\* and the return that follows it
TranslateExecute(g) ==
    /\ translating[g].pc = "Execute"
    /\ LET err == translating[g].err
           tree == tmpl[err.MessageKey]
           i == translating[g].i
           b == BufferOf(g)
       IN
       IF i > Len(tree)
       THEN /\ translating' = [translating EXCEPT ![g] =
                   [pc |-> "done", err |-> err, ret |-> bufs[b]]]
            /\ bufs' = bufs
       ELSE LET r == walk(err.MessageKey, SubSeq(tree, 1, i), err.MessageParams,
                          i, bufs[b]) IN
            IF ~r.err.isNil
            THEN /\ translating' = [translating EXCEPT ![g] =
                        [pc |-> "done", err |-> err,
                         ret |-> IF r.err.type = "*ValidationError"
                                 THEN r.err.MessageKey ELSE r.err.msg]]
                 /\ bufs' = bufs
            ELSE /\ translating' = [translating EXCEPT ![g] =
                        [pc |-> "Execute", err |-> err, i |-> i + 1]]
                 /\ bufs' = [bufs EXCEPT ![b] = r.buf]
    /\ UNCHANGED <<errors, calls, messages, tmpl, built, last, validating, stale>>

NextTranslating ==
    \E g \in Goroutines :
        \/ TranslateEnter(g)
        \/ TranslateMessages(g)
        \/ TranslateLookup(g)
        \/ TranslateExecute(g)

\* an append that reads the accumulator again when it stores
StoreAppend_Atomic(rd, cur, err) == Append(cur, err)

\* v.errors = append(v.errors, err): the slice stored is the one read before,
\* rd, with err appended; the current value cur of the field is overwritten
StoreAppend(rd, cur, err) == Append(rd, err)

\* goroutine g calls Validate: params := val.Validations() and the test of
\* its length
ValidateEnter(g) ==
    /\ validating[g].pc = "idle"
    /\ \E params \in RaceParamSeqs :
          validating' = [validating EXCEPT ![g] =
              IF Len(params) = 0
              THEN [pc |-> "done", params |-> params, ret |-> NilError]
              ELSE [pc |-> "range", params |-> params, i |-> 1]]
    /\ UNCHANGED <<errors, calls, messages, tmpl, built, last, translating, bufs, stale>>

\* one iteration of the loop up to the read of v.errors
ValidateRange(g) ==
    /\ validating[g].pc = "range"
    /\ LET params == validating[g].params
           i == validating[g].i
       IN
       IF i > Len(params)
       THEN validating' = [validating EXCEPT ![g] =
                [pc |-> "return", params |-> params]]
       ELSE LET err == params[i] IN
            IF ~err.isNil /\ err.MessageKey # ""
            THEN validating' = [validating EXCEPT ![g] =
                     [pc |-> "append", params |-> params, i |-> i, rd |-> errors]]
            ELSE validating' = [validating EXCEPT ![g] =
                     [pc |-> "range", params |-> params, i |-> i + 1]]
    /\ UNCHANGED <<errors, calls, messages, tmpl, built, last, translating, bufs, stale>>

\* the store of the appended slice into v.errors
ValidateAppend(g) ==
    /\ validating[g].pc = "append"
    /\ LET params == validating[g].params
           i == validating[g].i
       IN
       /\ errors' = StoreAppend(validating[g].rd, errors, params[i])
       /\ stale' = (stale \/ validating[g].rd # errors)
       /\ validating' = [validating EXCEPT ![g] =
              [pc |-> "range", params |-> params, i |-> i + 1]]
    /\ UNCHANGED <<calls, messages, tmpl, built, last, translating, bufs>>

\* if len(v.errors) > 0 { return v.errors }; return nil
ValidateReturn(g) ==
    /\ validating[g].pc = "return"
    /\ validating' = [validating EXCEPT ![g] =
           [pc |-> "done", params |-> validating[g].params,
            ret |-> IF Len(errors) > 0 THEN ErrorOf(errors) ELSE NilError]]
    /\ UNCHANGED <<errors, calls, messages, tmpl, built, last, translating, bufs, stale>>

NextValidating ==
    \E g \in Goroutines :
        \/ ValidateEnter(g)
        \/ ValidateRange(g)
        \/ ValidateAppend(g)
        \/ ValidateReturn(g)

NextRules ==
    \/ CallRequired
    \/ CallEmail
    \/ CallMinLength
    \/ CallMaxLength
    \/ CallBetween
    \/ CallDateGreaterThan
    \/ CallDateLessThan

Next ==
    \/ CallValidate
    \/ CallTranslate
    \/ NextRules

\* every operation of the package
Spec == Init /\ [][Next]_vars

\* the Validator alone, the Translator alone, the rule functions alone
SpecValidator == Init /\ [][CallValidate]_vars
SpecTranslator == Init /\ [][CallTranslate]_vars
SpecRules == Init /\ [][NextRules]_vars
\* the Translator with its constructor and the caller's writes to the map
SpecRegistry == Init /\ [][NextRegistry]_vars
\* two goroutines, one Translate call each on the shared Translator
SpecTranslating == Init /\ [][NextTranslating]_vars
\* two goroutines, one Validate call each on the shared Validator
SpecValidating == Init /\ [][NextValidating]_vars

(***************************************************************************)
(* Validator: properties.                                                  *)
(***************************************************************************)
IsPresent(err) == ~err.isNil
\* the non-absent entries of a Validations sequence, in order
NonAbsent(params) == SelectSeq(params, IsPresent)
\* every non-absent entry is the result of a rule: it carries a message key
AllRuleResults(params) ==
    \A i \in 1..Len(params) : params[i].isNil \/ params[i].MessageKey # ""

\* C1: a Validate call on a sequence of n entries, k of them non-absent rule
\* results and n-k absent, returns exactly those k errors in their order when
\* k > 0 and no error when k = 0, whatever calls were made before.
C1_ValidateReturnsTheCallsErrors ==
    (last.op = "Validate" /\ AllRuleResults(last.params))
        => last.ret = IF NonAbsent(last.params) = <<>>
                      THEN NilError
                      ELSE ErrorOf(NonAbsent(last.params))

\* C2: every result of Validate is no error or a collection of at least one
\* element.
C2_NeverEmptyCollection ==
    last.op = "Validate" => (last.ret.isNil \/ Len(last.ret.errs) >= 1)

\* a call on a non-empty sequence that retained nothing, on a Validator that
\* holds nothing, returned no error
C2_Witness ==
    /\ last.op = "Validate"
    /\ last.params # <<>>
    /\ errors = <<>>
    /\ last.ret.isNil

\* C3: a Validate call on an empty Validations sequence returns no error and
\* leaves the accumulator as it was, whatever it holds.
C3_EmptySequenceShortCircuits ==
    [][(calls' = calls + 1 /\ last'.params = <<>>)
          => (last'.ret.isNil /\ errors' = errors)]_vars

\* a call on an empty sequence returned no error on a Validator that holds
\* errors of an earlier call
C3_Witness ==
    /\ last.op = "Validate"
    /\ last.params = <<>>
    /\ errors # <<>>
    /\ last.ret.isNil

(***************************************************************************)
(* Translator: properties.                                                 *)
(***************************************************************************)
\* C4: Translate of an error whose message key is not in the registry returns
\* that key, whatever the message parameters, a nil mapping included.
C4_UnknownKeyReturnsKey ==
    (last.op = "Translate" /\ last.err.MessageKey \notin DOMAIN messages)
        => last.ret = last.err.MessageKey

\* a key the registry lacks was translated with a nil parameter mapping
C4_Witness ==
    /\ last.op = "Translate"
    /\ last.err.MessageKey \notin DOMAIN messages
    /\ last.err.MessageParams.isNil
    /\ last.ret = "unknown.key"

\* executing the template of the error's key against its parameters fails
RenderingFails(err) ==
    /\ err.MessageKey \in DOMAIN tmpl
    /\ ~Execute(err.MessageKey, tmpl[err.MessageKey], err.MessageParams).err.isNil

\* C5: for a key of the registry, whenever rendering the template fails,
\* Translate returns the message key unchanged.
C5_RenderingFailureReturnsKey ==
    (/\ last.op = "Translate"
     /\ last.err.MessageKey \in DOMAIN messages
     /\ RenderingFails(last.err))
        => last.ret = last.err.MessageKey

\* the template references only parameters, by name, and the mapping has them
SuppliesAll(template, params) ==
    \A i \in 1..Len(template) :
        template[i].item = "field"
            => /\ Len(template[i].ident) = 1
               /\ ~params.isNil
               /\ template[i].ident[1] \in DOMAIN params.entries

Digit(d) ==
    CASE d = 0 -> "0" [] d = 1 -> "1" [] d = 2 -> "2" [] d = 3 -> "3"
      [] d = 4 -> "4" [] d = 5 -> "5" [] d = 6 -> "6" [] d = 7 -> "7"
      [] d = 8 -> "8" [] d = 9 -> "9"

RECURSIVE Decimal(_)
Decimal(n) ==
    IF n < 0 THEN "-" \o Decimal(0 - n)
    ELSE IF n < 10 THEN Digit(n)
    ELSE Decimal(n \div 10) \o Digit(n % 10)

\* the string form of a parameter
StringForm(v) ==
    CASE v.kind = "string" -> Text(v.v)
      [] v.kind = "int" -> Decimal(v.v)
      [] v.kind = "nil" -> "<no value>"

RECURSIVE Substituted(_, _)
\* the template with every placeholder replaced by its parameter's string form
Substituted(template, entries) ==
    IF template = <<>> THEN ""
    ELSE (IF Head(template).item = "text"
          THEN Head(template).text
          ELSE StringForm(entries[Head(template).ident[1]]))
         \o Substituted(Tail(template), entries)

\* C6: for a key of the registry and a mapping that supplies every parameter
\* the template references, Translate returns the template text with every
\* placeholder replaced by the string form of its parameter.
C6_RendersTemplate ==
    (/\ last.op = "Translate"
     /\ last.err.MessageKey \in DOMAIN messages
     /\ SuppliesAll(messages[last.err.MessageKey], last.err.MessageParams))
        => last.ret = Substituted(messages[last.err.MessageKey],
                                  last.err.MessageParams.entries)

\* the default MinLength template with Field = "Name", Min = 3
C6_Witness ==
    /\ messages = defaultMessages
    /\ last.op = "Translate"
    /\ last.err.MessageKey = MsgMinLength
    /\ last.err.MessageParams =
          GoMap((Field :> StringVal(fieldNameCap)) @@ (Min :> IntVal(3))
                @@ (Value :> StringVal(<<74>>)))
    /\ last.ret = "Name en az 3 karakter olmal<U+0131>d<U+0131>r"

(***************************************************************************)
(* Rule functions: properties.                                             *)
(***************************************************************************)
\* C7: Between returns no violation exactly when min <= v <= max, and a
\* violation with key validation.between otherwise.
C7_BetweenInclusive ==
    last.op = "Between"
        => /\ last.ret.isNil <=> (last.min <= last.value /\ last.value <= last.max)
           /\ ~last.ret.isNil => last.ret.MessageKey = "validation.between"
           /\ last.min > last.max => ~last.ret.isNil

\* a value equal to the upper bound of a non-empty range passed
C7_Witness ==
    /\ last.op = "Between"
    /\ last.min < last.max
    /\ last.value = last.max
    /\ last.ret.isNil

\* the value is the zero or empty value of its type
IsZeroValue(v) ==
    \/ v.kind = "string" /\ v.v = <<>>
    \/ v.kind \in {"int", "int64", "float64"} /\ v.v = 0
    \/ v.kind = "bool" /\ v.v = FALSE
    \/ v.kind = "time.Time" /\ v.v = [sec |-> 0, nsec |-> 0]
    \/ v.kind = "nil"
    \/ v.kind = "*string" /\ v.v = "nil"

\* C8: Required returns a violation exactly when the value is the zero value
\* of its type: the empty string, a zero of any numeric type, false, the zero
\* time, or nil (a nil pointer included).
C8_RequiredFlagsZeroValues ==
    last.op = "Required" => (~last.ret.isNil <=> IsZeroValue(last.value))

\* C9: MinLength returns a violation exactly when the number of characters of
\* the value is below min, MaxLength exactly when it is above max.
C9_LengthInCharacters ==
    /\ last.op = "MinLength" => (~last.ret.isNil <=> Len(last.value) < last.min)
    /\ last.op = "MaxLength" => (~last.ret.isNil <=> Len(last.value) > last.max)

\* the instant of a time.Time, in nanoseconds
Instant(t) == t.sec * (1000 * 1000 * 1000) + t.nsec

ContractKey(op) ==
    CASE op = "Required" -> "validation.required"
      [] op = "Email" -> "validation.email"
      [] op = "MinLength" -> "validation.min_length"
      [] op = "MaxLength" -> "validation.max_length"
      [] op = "Between" -> "validation.between"
      [] op = "DateGreaterThan" -> "validation.date_greater_than"
      [] op = "DateLessThan" -> "validation.date_less_than"
ContractParams(op) ==
    CASE op \in {"Required", "Email"} -> {"Field", "Value"}
      [] op \in {"MinLength", "DateGreaterThan"} -> {"Field", "Min", "Value"}
      [] op \in {"MaxLength", "DateLessThan"} -> {"Field", "Max", "Value"}
      [] op = "Between" -> {"Field", "Min", "Max", "Value"}

\* the Go value an argument of the latest rule call is, by the rule's signature
ArgValue(op, x) ==
    CASE op = "Required" -> x
      [] op \in {"Email", "MinLength", "MaxLength"} -> [kind |-> "string", v |-> x]
      [] op = "Between" -> [kind |-> "int", v |-> x]
      [] op \in {"DateGreaterThan", "DateLessThan"} -> [kind |-> "time.Time", v |-> x]
BoundValue(op, x) ==
    IF op \in {"DateGreaterThan", "DateLessThan"}
    THEN [kind |-> "time.Time", v |-> x]
    ELSE [kind |-> "int", v |-> x]

\* C11: a violation a rule reports has the supplied field name, the rule's
\* message key, the supplied value as current value, and a parameter mapping
\* whose names are exactly the rule's row of the contract table, with Field the
\* field name, Min and Max the supplied bounds and Value the supplied value.
C11_ViolationRecord ==
    (last.op \in {"Required", "Email", "MinLength", "MaxLength", "Between",
                  "DateGreaterThan", "DateLessThan"} /\ ~last.ret.isNil)
        => LET p == last.ret.MessageParams IN
           /\ last.ret.Field = last.field
           /\ last.ret.MessageKey = ContractKey(last.op)
           /\ last.ret.CurrentValue = ArgValue(last.op, last.value)
           /\ ~p.isNil
           /\ DOMAIN p.entries = ContractParams(last.op)
           /\ p.entries["Field"] = [kind |-> "string", v |-> last.field]
           /\ p.entries["Value"] = ArgValue(last.op, last.value)
           /\ "Min" \in DOMAIN p.entries
                 => p.entries["Min"] = BoundValue(last.op, last.min)
           /\ "Max" \in DOMAIN p.entries
                 => p.entries["Max"] = BoundValue(last.op, last.max)

\* MaxLength reported a value of two runes as longer than its bound
C11_Witness ==
    /\ last.op = "MaxLength"
    /\ ~last.ret.isNil
    /\ Len(last.value) = 2
    /\ last.ret.MessageParams.entries["Max"] = [kind |-> "int", v |-> last.max]

(***************************************************************************)
(* Validator: the accumulator across calls.                                *)
(***************************************************************************)
IsRetained(err) == ~err.isNil /\ err.MessageKey # ""
\* the entries of a Validations sequence a call keeps, in order
Retained(params) == SelectSeq(params, IsRetained)
ValidateStep == calls' = calls + 1

\* C15: the accumulator is never reset: every Validate call leaves in it what
\* it held before followed by the entries the call retained, in order (so it
\* holds the retained entries of all calls so far, in call order), and a call
\* on a non-empty sequence returns the whole accumulator whenever it is
\* non-empty.
C15_AccumulatorNeverReset ==
    [][ValidateStep =>
          /\ errors' = errors \o Retained(last'.params)
          /\ (last'.params # <<>> /\ errors' # <<>>)
                => last'.ret = [isNil |-> FALSE, errs |-> errors'] ]_vars

\* a call that retained one entry returned it after the entry of the call
\* before
C15_Witness ==
    /\ last.op = "Validate"
    /\ Len(Retained(last.params)) = 1
    /\ Len(errors) = 2
    /\ ~last.ret.isNil
    /\ last.ret.errs = errors

AllAbsent(params) == \A i \in 1..Len(params) : params[i].isNil
\* errs begins with the elements of old
ContainsStale(errs, old) ==
    Len(errs) >= Len(old) /\ SubSeq(errs, 1, Len(old)) = old

\* the statement of C16 as written: any number of absent evaluations, none
\* included
C16_AsWritten ==
    [][(ValidateStep /\ errors # <<>> /\ AllAbsent(last'.params))
          => (~last'.ret.isNil /\ ContainsStale(last'.ret.errs, errors))]_vars

\* C16: once a Validate call has returned errors, every later Validate call on
\* a passing entity with at least one rule evaluation, all of them absent,
\* still returns an error that contains the stale errors of the earlier call.
C16_StaleErrorsReported ==
    [][(ValidateStep /\ errors # <<>> /\ last'.params # <<>>
           /\ AllAbsent(last'.params))
          => (~last'.ret.isNil /\ ContainsStale(last'.ret.errs, errors))]_vars

\* a call on two absent evaluations returned the error of the call before
C16_Witness ==
    /\ last.op = "Validate"
    /\ Len(last.params) = 2
    /\ AllAbsent(last.params)
    /\ ~last.ret.isNil
    /\ last.ret.errs = errors
    /\ errors # <<>>

\* C17: every element of the accumulator, and of every collection Validate
\* returns, is a non-absent Validation Error with a non-empty message key.
C17_OnlyKeyedErrorsStored ==
    /\ \A i \in 1..Len(errors) : ~errors[i].isNil /\ errors[i].MessageKey # ""
    /\ (last.op = "Validate" /\ ~last.ret.isNil)
          => \A i \in 1..Len(last.ret.errs) :
                ~last.ret.errs[i].isNil /\ last.ret.errs[i].MessageKey # ""

\* a call on an absent entry and an entry with an empty key stored neither and
\* returned the error of the call before
C17_Witness ==
    /\ last.op = "Validate"
    /\ \E i \in 1..Len(last.params) : last.params[i].isNil
    /\ \E i \in 1..Len(last.params) :
          ~last.params[i].isNil /\ last.params[i].MessageKey = ""
    /\ Len(errors) = 1
    /\ ~last.ret.isNil

(***************************************************************************)
(* Translator: construction and the registry.                              *)
(***************************************************************************)
IsMalformed(msg) == \E i \in 1..Len(msg) : msg[i].item = "unclosed"

\* C12: a construction from a mapping with a malformed template fails and
\* returns no Translator, so the Translator that exists has a parsed template
\* for every key of the mapping it was built from.
C12_MalformedFailsAtConstruction ==
    /\ DOMAIN tmpl = DOMAIN built
    /\ \A key \in DOMAIN built : ~IsMalformed(built[key]) /\ tmpl[key] = built[key]
    /\ last.op = "NewTranslatorWithMessages"
          => /\ last.panicked <=> \E key \in DOMAIN last.msgs :
                                      IsMalformed(last.msgs[key])
             /\ ~last.panicked => built = last.msgs

\* a construction from the mapping with the unclosed action has failed
C12_Witness ==
    /\ last.op = "NewTranslatorWithMessages"
    /\ last.msgs = malformedMessages
    /\ last.panicked
    /\ built # malformedMessages

\* C13: what Translate returns is what it returns on the registry as it was at
\* construction, whatever the caller has since added to, removed from or
\* replaced in the mapping it passed.
C13_RegistryFixedAtConstruction ==
    last.op = "Translate" => last.ret = Translate(built, tmpl, last.err)

(***************************************************************************)
(* Concurrent calls.                                                       *)
(***************************************************************************)
\* C14: no step of a Translate call writes the registry, the parsed templates
\* or the error the call was given, and in every interleaving of the
\* goroutines' Translate calls each call returns the string Translate returns
\* for its error when run alone.
C14_ConcurrentTranslateAsAlone ==
    [][/\ messages' = messages
       /\ tmpl' = tmpl
       /\ \A g \in Goroutines :
             /\ translating[g].pc # "idle"
                   => translating'[g].err = translating[g].err
             /\ translating'[g].pc = "done"
                   => translating'[g].ret =
                         Translate(messages, tmpl, translating'[g].err)]_vars

\* both goroutines have rendered a template, each into its buffer, and
\* returned different texts
C14_Witness ==
    /\ \A g \in Goroutines :
          /\ translating[g].pc = "done"
          /\ translating[g].err.MessageKey \in DOMAIN messages
          /\ translating[g].ret = bufs[g]
          /\ bufs[g] # ""
    /\ translating["g1"].ret # translating["g2"].ret

AllValidated == \A g \in Goroutines : validating[g].pc = "done"
\* what each of the two calls retains, and the accumulator after the two calls
\* run one after the other
RetainedBy(g) == Retained(validating[g].params)
SequentialResults ==
    {RetainedBy("g1") \o RetainedBy("g2"), RetainedBy("g2") \o RetainedBy("g1")}

RECURSIVE IsMerge(_, _, _)
\* s holds the elements of a and of b, each in its order
IsMerge(s, a, b) ==
    IF s = <<>> THEN a = <<>> /\ b = <<>>
    ELSE \/ a # <<>> /\ Head(a) = Head(s) /\ IsMerge(Tail(s), Tail(a), b)
         \/ b # <<>> /\ Head(b) = Head(s) /\ IsMerge(Tail(s), a, Tail(b))

\* C18: two Validate calls running concurrently on one Validator interleave
\* their writes to the accumulator: once a call has stored an append computed
\* from a value of the accumulator that another call had replaced, the
\* accumulator after both calls has lost an entry and is the result of neither
\* sequential order; without such a store it holds the retained entries of
\* both calls, each call's in order, possibly interleaved.
C18_ConcurrentValidateInterleaves ==
    AllValidated =>
        IF stale
        THEN /\ Len(errors) < Len(RetainedBy("g1")) + Len(RetainedBy("g2"))
             /\ errors \notin SequentialResults
        ELSE IsMerge(errors, RetainedBy("g1"), RetainedBy("g2"))

\* both calls have returned and an entry one of them appended is lost
C18_Witness ==
    /\ AllValidated
    /\ errors \notin SequentialResults
    /\ Len(errors) < Len(RetainedBy("g1")) + Len(RetainedBy("g2"))
    /\ \A g \in Goroutines : RetainedBy(g) # <<>>

====
